---- MODULE Spec2Model ----
(***************************************************************************)
(* Model of azurerm_kubernetes_cluster_node_pool                           *)
(* (kubernetes_cluster_node_pool_resource.go): the customizeDiff callback  *)
(* and the Create / Update / Read / Delete handlers, stepping from one     *)
(* remote call to the next.                                                *)
(*                                                                         *)
(* Go pointers and nil-able maps/slices are optionals: Nil is <<>> and a   *)
(* present value v is <<v>>.  A Go map is a set of <<key, value>> pairs.   *)
(* Error values are sequences of messages: <<>> is a nil error.            *)
(***************************************************************************)
EXTENDS Integers, Sequences, FiniteSets, TLC

VARIABLES
    pool,       \* the remote node pool: Nil, or <<agent pool>>
    d_id,       \* d.Id(): the local identifier
    d_state,    \* the attributes stored for the resource (what d.Set wrote)
    cfg,        \* the planned attributes the handler reads with d.Get
    op,         \* the callback the framework is running or ran last
    pc,         \* its position
    cluster,    \* local cluster: the last response of clustersClient.Get
    existing,   \* local existing: the pool fetched by Update
    payload,    \* the argument of the last CreateOrUpdate call of this operation
    calls,      \* the remote calls this operation issued, in order
    err         \* the error the callback returned (<<>>: nil)

vars == <<pool, d_id, d_state, cfg, op, pc, cluster, existing, payload, calls, err>>

Nil == <<>>
Some(v) == <<v>>
Val(o) == o[1]

----------------------------------------------------------------------------
\* Bounds of the model

\* min_count and max_count range over 0..MaxCount (0: not set)
MaxCount == 2
\* node_count ranges over 0..MaxNodes (0: not set)
MaxNodes == 1

----------------------------------------------------------------------------
\* Enumerations of the containerservice SDK used by the resource

Regular == "Regular"
Spot == "Spot"
Linux == "Linux"
Windows == "Windows"
VirtualMachineScaleSets == "VirtualMachineScaleSets"
AvailabilitySet == "AvailabilitySet"

PoolName == "pool1"
ClusterId == "/clusters/c1"
PoolId == "/clusters/c1/agentPools/pool1"

----------------------------------------------------------------------------
\* Error messages

MsgBidNeedsSpot == "priority must be set to Spot if max_bid_price is specified"
MsgEvictionNeedsSpot == "priority must be set to Spot if eviction_policy is specified"
MsgMaxRequired == "max_count must be configured when enable_auto_scaling is set to true"
MsgMinRequired == "min_count must be configured when enable_auto_scaling is set to true"
MsgMaxGeMin == "max_count must be >= min_count"
MsgMustBeNull == "max_count and min_count must be set to null when enable_auto_scaling is set to false"
MsgMustBeNil == "max_count and min_count must be set to nil when enable_auto_scaling is set to false"
MsgClusterNotFound == "Kubernetes Cluster was not found"
MsgRetrievingCluster == "retrieving existing Kubernetes Cluster"
MsgNotVMSS == "The Default Node Pool must be a VirtualMachineScaleSet to attach multiple node pools!"
MsgCheckingPresence == "checking for presence of existing Agent Pool"
MsgImportAsExists == "A resource with the ID already exists - to be managed via Terraform this resource needs to be imported into the State"
MsgCreating == "creating/updating Managed Kubernetes Cluster Node Pool"
MsgWaitingCreate == "waiting for completion of Managed Kubernetes Cluster Node Pool"
MsgRetrievingCreated == "retrieving Managed Kubernetes Cluster Node Pool"
MsgCannotReadId == "Cannot read ID for Managed Kubernetes Cluster Node Pool"
MsgPoolNotFound == "[DEBUG] Node Pool was not found in Managed Kubernetes Cluster"
MsgRetrievingPool == "retrieving Node Pool"
MsgNilProperties == "retrieving Node Pool: properties was nil"
MsgUpdating == "updating Node Pool"
MsgWaitingUpdate == "waiting for update of Node Pool"
MsgRetrievingReadCluster == "retrieving Managed Kubernetes Cluster"
MsgDeleting == "deleting Node Pool"
MsgWaitingDelete == "waiting for the deletion of Node Pool"
MsgParseId == "parsing Node Pool ID"
MsgPanic == "panic: nil pointer dereference"

AutoScaleMessages == {MsgMaxRequired, MsgMinRequired, MsgMaxGeMin, MsgMustBeNull, MsgMustBeNil}

----------------------------------------------------------------------------
\* The schema: the attributes of the resource and the values they range over

ZoneLists == {<<>>, <<"1">>}
TagMaps == {{}, {<<"a", "1">>}}
OsTypes == {Linux, Windows}
Priorities == {Regular, Spot}
EvictionPolicies == {"", "Delete", "Deallocate"}
BidPrices == {0, 1}

\* the attributes Update may change (no ForceNew in the schema)
MutableKeys == {"availability_zones", "enable_auto_scaling", "enable_node_public_ip",
                "max_count", "min_count", "node_count", "tags"}

\* the attributes declared ForceNew: a change of one is planned as a
\* replacement (Delete, then Create), never as an Update
ForceNewKeys == {"name", "kubernetes_cluster_id", "vm_size", "max_pods", "node_labels",
                 "node_taints", "os_disk_size_gb", "os_type", "vnet_subnet_id",
                 "priority", "eviction_policy", "max_bid_price"}

\* the stored attributes of a resource that does not exist: every zero value
ZeroState ==
    [name |-> "", kubernetes_cluster_id |-> "", node_count |-> 0, tags |-> {},
     vm_size |-> "", availability_zones |-> <<>>, enable_auto_scaling |-> FALSE,
     enable_node_public_ip |-> FALSE, max_count |-> 0, max_pods |-> 0, min_count |-> 0,
     node_labels |-> {}, node_taints |-> <<>>, os_disk_size_gb |-> 0, os_type |-> "",
     vnet_subnet_id |-> "", priority |-> "", eviction_policy |-> "", max_bid_price |-> 0]

\* what a configuration may declare for the mutable attributes: every
\* combination of the auto-scaling attributes with the others left unset,
\* and every combination of the others with auto-scaling off or on
AutoScaleConfigs ==
    [node_count : 0..MaxNodes, enable_auto_scaling : BOOLEAN, min_count : 0..MaxCount,
     max_count : 0..MaxCount, availability_zones : {<<>>},
     enable_node_public_ip : {FALSE}, tags : {{}}]

OtherConfigs ==
    [node_count : {1}, enable_auto_scaling : {FALSE}, min_count : {0},
     max_count : {0}, availability_zones : ZoneLists,
     enable_node_public_ip : BOOLEAN, tags : TagMaps]
    \cup
    [node_count : {0}, enable_auto_scaling : {TRUE}, min_count : {1},
     max_count : {MaxCount}, availability_zones : ZoneLists,
     enable_node_public_ip : BOOLEAN, tags : TagMaps]

MutableConfigs == AutoScaleConfigs \cup OtherConfigs

\* what a configuration may declare for the ForceNew attributes; os_type and
\* priority have the schema defaults Linux and Regular, vm_size is required
CreationConfigs ==
    {[name |-> PoolName, kubernetes_cluster_id |-> ClusterId, vm_size |-> "Standard_D2",
      max_pods |-> x.n, node_labels |-> IF x.n = 0 THEN {} ELSE {<<"k", "v">>},
      node_taints |-> IF x.n = 0 THEN <<>> ELSE <<"t=1:NoSchedule">>,
      os_disk_size_gb |-> x.d, os_type |-> IF x.n = 0 THEN Linux ELSE Windows,
      vnet_subnet_id |-> IF x.n = 0 THEN "" ELSE "/subnets/s1",
      priority |-> x.p, eviction_policy |-> x.e, max_bid_price |-> x.b] :
        x \in [n : {0, 30}, d : {0, 50}, p : Priorities, e : EvictionPolicies,
               b : BidPrices]}

\* the creation attributes the life cycle is run with: the defaults, a Spot
\* pool with every optional attribute set, and a Regular pool that declares
\* the Spot-only attributes
LifecycleCreationConfigs ==
    {i \in CreationConfigs :
        \/ /\ i.max_pods = 0 /\ i.os_disk_size_gb = 0
           /\ i.priority = Regular /\ i.eviction_policy = "" /\ i.max_bid_price = 0
        \/ /\ i.max_pods # 0 /\ i.os_disk_size_gb # 0
           /\ i.eviction_policy = "Delete" /\ i.max_bid_price # 0}

\* the record with the fields of both r and s
Merge(r, s) ==
    [k \in DOMAIN r \cup DOMAIN s |-> IF k \in DOMAIN r THEN r[k] ELSE s[k]]

\* d.HasChange(key): the planned value differs from the stored one
HasChange(key) == d_state[key] # cfg[key]

----------------------------------------------------------------------------
\* customizeDiff

\* d.GetOk(key): the value, and whether it is set to a non-zero value
HasValue(c, key) ==
    CASE key = "max_bid_price" -> c[key] # 0
      [] OTHER -> c[key] # ""

\* customizeDiff with the second message replacing the first instead of
\* being appended to it
customizeDiffOverwrite(c) ==
    IF c.priority = Regular /\ HasValue(c, "eviction_policy") THEN <<MsgEvictionNeedsSpot>>
    ELSE IF c.priority = Regular /\ HasValue(c, "max_bid_price") THEN <<MsgBidNeedsSpot>>
    ELSE <<>>

customizeDiff(c) ==
    LET hasEvictionPolicy == HasValue(c, "eviction_policy")
        hasMaxBidPrice == HasValue(c, "max_bid_price")
        e1 == IF c.priority = Regular /\ hasMaxBidPrice THEN <<MsgBidNeedsSpot>> ELSE <<>>
        e2 == IF c.priority = Regular /\ hasEvictionPolicy
              THEN e1 \o <<MsgEvictionNeedsSpot>>
              ELSE e1
    IN  e2

----------------------------------------------------------------------------
\* Create: the profile built from the planned attributes

\* CreateProfile sending max_pods, os_disk_size_gb and max_bid_price
\* whether set or not
CreateProfileExplicitZero(c) ==
    [OsType |-> c.os_type,
     EnableAutoScaling |-> Some(c.enable_auto_scaling),
     EnableNodePublicIP |-> Some(c.enable_node_public_ip),
     Tags |-> Some(c.tags),
     Type |-> VirtualMachineScaleSets,
     VMSize |-> c.vm_size,
     ScaleSetPriority |-> c.priority,
     Count |-> Some(c.node_count),
     AvailabilityZones |-> IF Len(c.availability_zones) > 0
                           THEN Some(c.availability_zones) ELSE Nil,
     MaxPods |-> Some(c.max_pods),
     NodeLabels |-> IF Cardinality(c.node_labels) > 0 THEN Some(c.node_labels) ELSE Nil,
     NodeTaints |-> IF Len(c.node_taints) > 0 THEN Some(c.node_taints) ELSE Nil,
     OsDiskSizeGB |-> Some(c.os_disk_size_gb),
     VnetSubnetID |-> IF c.vnet_subnet_id # "" THEN Some(c.vnet_subnet_id) ELSE Nil,
     ScaleSetEvictionPolicy |-> c.eviction_policy,
     SpotMaxPrice |-> Some(c.max_bid_price),
     MaxCount |-> Nil,
     MinCount |-> Nil]

\* the struct literal, and the optional fields set when the attribute is not
\* its zero value
CreateProfile(c) ==
    [OsType |-> c.os_type,
     EnableAutoScaling |-> Some(c.enable_auto_scaling),
     EnableNodePublicIP |-> Some(c.enable_node_public_ip),
     Tags |-> Some(c.tags),
     Type |-> VirtualMachineScaleSets,
     VMSize |-> c.vm_size,
     ScaleSetPriority |-> c.priority,
     Count |-> Some(c.node_count),
     AvailabilityZones |-> IF Len(c.availability_zones) > 0
                           THEN Some(c.availability_zones) ELSE Nil,
     MaxPods |-> IF c.max_pods > 0 THEN Some(c.max_pods) ELSE Nil,
     NodeLabels |-> IF Cardinality(c.node_labels) > 0 THEN Some(c.node_labels) ELSE Nil,
     NodeTaints |-> IF Len(c.node_taints) > 0 THEN Some(c.node_taints) ELSE Nil,
     OsDiskSizeGB |-> IF c.os_disk_size_gb > 0 THEN Some(c.os_disk_size_gb) ELSE Nil,
     VnetSubnetID |-> IF c.vnet_subnet_id # "" THEN Some(c.vnet_subnet_id) ELSE Nil,
     ScaleSetEvictionPolicy |-> c.eviction_policy,
     SpotMaxPrice |-> IF c.max_bid_price # 0 THEN Some(c.max_bid_price) ELSE Nil,
     MaxCount |-> Nil,
     MinCount |-> Nil]

\* CreateAutoScaleError with the last comparison off by one: equal counts
\* are refused
CreateAutoScaleErrorStrict(c) ==
    IF c.enable_auto_scaling
    THEN IF ~(c.max_count > 0) THEN <<MsgMaxRequired>>
         ELSE IF ~(c.min_count > 0) THEN <<MsgMinRequired>>
         ELSE IF c.min_count >= c.max_count THEN <<MsgMaxGeMin>>
         ELSE <<>>
    ELSE IF c.min_count > 0 \/ c.max_count > 0 THEN <<MsgMustBeNull>>
         ELSE <<>>

\* CreateAutoScaleError collecting every failed rule instead of returning
\* at the first
CreateAutoScaleErrorAll(c) ==
    IF c.enable_auto_scaling
    THEN (IF ~(c.max_count > 0) THEN <<MsgMaxRequired>> ELSE <<>>)
         \o (IF ~(c.min_count > 0) THEN <<MsgMinRequired>> ELSE <<>>)
         \o (IF c.min_count > c.max_count THEN <<MsgMaxGeMin>> ELSE <<>>)
    ELSE IF c.min_count > 0 \/ c.max_count > 0 THEN <<MsgMustBeNull>>
         ELSE <<>>

\* the error of the enable_auto_scaling block: the first rule that fails
CreateAutoScaleError(c) ==
    LET maxCount == c.max_count
        minCount == c.min_count
    IN  IF c.enable_auto_scaling
        THEN IF ~(maxCount > 0) THEN <<MsgMaxRequired>>
             ELSE IF ~(minCount > 0) THEN <<MsgMinRequired>>
             ELSE IF minCount > maxCount THEN <<MsgMaxGeMin>>
             ELSE <<>>
        ELSE IF minCount > 0 \/ maxCount > 0 THEN <<MsgMustBeNull>>
             ELSE <<>>

\* CreateAutoScale with max_count as the count of an unset node_count
CreateAutoScaleFromMax(c, profile) ==
    IF c.enable_auto_scaling
    THEN [profile EXCEPT
            !.Count = IF c.node_count = 0 THEN Some(c.max_count) ELSE @,
            !.MaxCount = Some(c.max_count),
            !.MinCount = Some(c.min_count)]
    ELSE profile

\* CreateAutoScale without the substitution of min_count for an unset
\* node_count
CreateAutoScaleDeclaredCount(c, profile) ==
    IF c.enable_auto_scaling
    THEN [profile EXCEPT !.MaxCount = Some(c.max_count), !.MinCount = Some(c.min_count)]
    ELSE profile

\* the profile after the enable_auto_scaling block, when it returns no error
CreateAutoScale(c, profile) ==
    IF c.enable_auto_scaling
    THEN [profile EXCEPT
            !.Count = IF c.node_count = 0 THEN Some(c.min_count) ELSE @,
            !.MaxCount = Some(c.max_count),
            !.MinCount = Some(c.min_count)]
    ELSE profile

\* parameters: the agent pool handed to CreateOrUpdate
CreateParameters(c) ==
    [ID |-> Nil, Name |-> Some(c.name),
     properties |-> Some(CreateAutoScale(c, CreateProfile(c)))]

----------------------------------------------------------------------------
\* Update: the delta applied to the fetched properties

\* UpdateEnableAutoScaling taking the planned flag whether changed or not
UpdateEnableAutoScalingPlanned(props) == cfg.enable_auto_scaling

\* UpdateEnableAutoScaling keeping the fetched flag whatever the plan
UpdateEnableAutoScalingFetched(props) ==
    IF props.EnableAutoScaling # Nil THEN Val(props.EnableAutoScaling) ELSE FALSE

\* enableAutoScaling: the fetched flag, replaced by the planned one on a change
UpdateEnableAutoScaling(props) ==
    IF HasChange("enable_auto_scaling")
    THEN cfg.enable_auto_scaling
    ELSE IF props.EnableAutoScaling # Nil THEN Val(props.EnableAutoScaling) ELSE FALSE

\* UpdateDelta with tags written whether changed or not
UpdateDeltaAllTags(props) ==
    [props EXCEPT
        !.AvailabilityZones = IF HasChange("availability_zones")
                              THEN Some(cfg.availability_zones) ELSE @,
        !.EnableAutoScaling = IF HasChange("enable_auto_scaling")
                              THEN Some(cfg.enable_auto_scaling) ELSE @,
        !.EnableNodePublicIP = IF HasChange("enable_node_public_ip")
                               THEN Some(cfg.enable_node_public_ip) ELSE @,
        !.MaxCount = IF HasChange("max_count") THEN Some(cfg.max_count) ELSE @,
        !.MinCount = IF HasChange("min_count") THEN Some(cfg.min_count) ELSE @,
        !.Count = IF HasChange("node_count") THEN Some(cfg.node_count) ELSE @,
        !.Tags = Some(cfg.tags)]

\* delta patching: each changed attribute overwrites its field of props
UpdateDelta(props) ==
    [props EXCEPT
        !.AvailabilityZones = IF HasChange("availability_zones")
                              THEN Some(cfg.availability_zones) ELSE @,
        !.EnableAutoScaling = IF HasChange("enable_auto_scaling")
                              THEN Some(cfg.enable_auto_scaling) ELSE @,
        !.EnableNodePublicIP = IF HasChange("enable_node_public_ip")
                               THEN Some(cfg.enable_node_public_ip) ELSE @,
        !.MaxCount = IF HasChange("max_count") THEN Some(cfg.max_count) ELSE @,
        !.MinCount = IF HasChange("min_count") THEN Some(cfg.min_count) ELSE @,
        !.Count = IF HasChange("node_count") THEN Some(cfg.node_count) ELSE @,
        !.Tags = IF HasChange("tags") THEN Some(cfg.tags) ELSE @]

\* a nil-able int32 read as an int, nil as 0
IntOrZero(p) == IF p # Nil THEN Val(p) ELSE 0

\* UpdateAutoScaleError without the check of the auto-scaling-off branch
UpdateAutoScaleErrorLenient(enableAutoScaling, props) ==
    LET maxCount == IntOrZero(props.MaxCount)
        minCount == IntOrZero(props.MinCount)
    IN  IF enableAutoScaling
        THEN IF maxCount = 0 THEN <<MsgMaxRequired>>
             ELSE IF minCount = 0 THEN <<MsgMinRequired>>
             ELSE IF minCount > maxCount THEN <<MsgMaxGeMin>>
             ELSE <<>>
        ELSE <<>>

\* the error of the auto-scale validation of the patched props
UpdateAutoScaleError(enableAutoScaling, props) ==
    LET maxCount == IntOrZero(props.MaxCount)
        minCount == IntOrZero(props.MinCount)
    IN  IF enableAutoScaling
        THEN IF maxCount = 0 THEN <<MsgMaxRequired>>
             ELSE IF minCount = 0 THEN <<MsgMinRequired>>
             ELSE IF minCount > maxCount THEN <<MsgMaxGeMin>>
             ELSE <<>>
        ELSE IF minCount > 0 \/ maxCount > 0 THEN <<MsgMustBeNil>>
             ELSE <<>>

\* UpdateAutoScale without the nil-ing of the counts
UpdateAutoScaleKeep(enableAutoScaling, props) == props

\* the props after the validation: both counts are nil-ed out when
\* auto-scaling is off
UpdateAutoScale(enableAutoScaling, props) ==
    IF enableAutoScaling
    THEN props
    ELSE [props EXCEPT !.MaxCount = Nil, !.MinCount = Nil]

\* UpdateParameters with the operating system and the size of the plan
UpdateParametersPlanned(ex) ==
    LET props == Val(ex.properties)
    IN  [ex EXCEPT !.properties =
            Some([UpdateAutoScale(UpdateEnableAutoScaling(props), UpdateDelta(props))
                    EXCEPT !.OsType = cfg.os_type, !.VMSize = cfg.vm_size])]

\* existing, with its properties replaced: the agent pool handed to CreateOrUpdate
UpdateParameters(ex) ==
    LET props == Val(ex.properties)
    IN  [ex EXCEPT !.properties =
            Some(UpdateAutoScale(UpdateEnableAutoScaling(props), UpdateDelta(props)))]

----------------------------------------------------------------------------
\* Read: the attributes set from a fetched agent pool

BoolOrFalse(p) == IF p # Nil THEN Val(p) ELSE FALSE
StringOrEmpty(p) == IF p # Nil THEN Val(p) ELSE ""
\* utils.FlattenStringSlice
FlattenStringSlice(p) == IF p # Nil THEN Val(p) ELSE <<>>
\* a nil-able map stored as an attribute
FlattenMap(p) == IF p # Nil THEN Val(p) ELSE {}

\* the d.Set calls of Read on state st, for the pool resp read under identifier id
Reflect(st, resp) ==
    LET named == [st EXCEPT !.name = PoolName, !.kubernetes_cluster_id = ClusterId]
    IN  IF resp.properties = Nil
        THEN named
        ELSE LET props == Val(resp.properties)
             IN  [named EXCEPT
                    !.availability_zones = FlattenStringSlice(props.AvailabilityZones),
                    !.enable_auto_scaling = BoolOrFalse(props.EnableAutoScaling),
                    !.enable_node_public_ip = BoolOrFalse(props.EnableNodePublicIP),
                    !.max_count = IntOrZero(props.MaxCount),
                    !.max_pods = IntOrZero(props.MaxPods),
                    !.min_count = IntOrZero(props.MinCount),
                    !.node_count = IntOrZero(props.Count),
                    !.node_labels = FlattenMap(props.NodeLabels),
                    !.node_taints = FlattenStringSlice(props.NodeTaints),
                    !.os_disk_size_gb = IntOrZero(props.OsDiskSizeGB),
                    !.os_type = props.OsType,
                    !.vnet_subnet_id = StringOrEmpty(props.VnetSubnetID),
                    !.vm_size = props.VMSize,
                    !.priority = props.ScaleSetPriority,
                    !.eviction_policy = props.ScaleSetEvictionPolicy,
                    !.max_bid_price = IntOrZero(props.SpotMaxPrice),
                    !.tags = FlattenMap(props.Tags)]

----------------------------------------------------------------------------
\* The remote API: the responses a call may return

\* clustersClient.Get in Create: not found, another error, or a cluster
\* whose properties or pool profiles may be nil
ClusterProperties ==
    {Nil, Some([AgentPoolProfiles |-> Nil])} \cup
    {Some([AgentPoolProfiles |-> Some(s)]) :
        s \in {<<>>, <<AvailabilitySet>>,
               <<AvailabilitySet, VirtualMachineScaleSets>>}}

ClusterResponses ==
    {[status |-> st, properties |-> Nil] : st \in {"notfound", "error"}} \cup
    {[status |-> "ok", properties |-> p] : p \in ClusterProperties}

\* the outcome of a call that returns no body the handler reads
Statuses == {"ok", "notfound", "error"}

\* the zero value of containerservice.AgentPool
EmptyAgentPool == [ID |-> Nil, Name |-> Nil, properties |-> Nil]

\* poolsClient.Get on remote pool p: not found when there is none, else the
\* pool, carrying one of the identifiers ids; or another error
PoolResponses(p, ids) ==
    {[status |-> "error", body |-> EmptyAgentPool]} \cup
    IF p = Nil
    THEN {[status |-> "notfound", body |-> EmptyAgentPool]}
    ELSE {[status |-> "ok", body |-> [Val(p) EXCEPT !.ID = i]] : i \in ids}

\* the identifier of a response: nil, empty, or the pool's
ResponseIds == {Nil, Some(""), Some(PoolId)}

\* the remote pool once a CreateOrUpdate with parameters params completed
Applied(params) ==
    Some([ID |-> Some(PoolId), Name |-> Some(PoolName), properties |-> params.properties])

\* a pool that was not created by this resource
ExternalProfile ==
    [OsType |-> Linux, EnableAutoScaling |-> Nil, EnableNodePublicIP |-> Nil, Tags |-> Nil,
     Type |-> VirtualMachineScaleSets, VMSize |-> "Standard_D2",
     ScaleSetPriority |-> Regular, Count |-> Some(1), AvailabilityZones |-> Nil,
     MaxPods |-> Some(30), NodeLabels |-> Nil, NodeTaints |-> Nil,
     OsDiskSizeGB |-> Some(30), VnetSubnetID |-> Nil, ScaleSetEvictionPolicy |-> "",
     SpotMaxPrice |-> Nil, MaxCount |-> Nil, MinCount |-> Nil]

ExternalPools ==
    {[ID |-> Some(PoolId), Name |-> Some(PoolName), properties |-> p] :
        p \in {Nil, Some(ExternalProfile)}}

\* parse.KubernetesNodePoolID: the identifier names (resource group, cluster, pool)
ParseOk(id) == id = PoolId

----------------------------------------------------------------------------
\* The framework: planning, and the order of the callbacks

\* no callback is running and none has left a result behind
Idle == pc = "idle"

\* a plan was made and not yet applied
Planned == pc = "done" /\ op = "Diff"

Finish(e) == pc' = "done" /\ err' = e

\* the planned attributes for declared mutable attributes m and creation
\* attributes i: a resource not yet created takes both as declared; an
\* existing one keeps its ForceNew attributes (a change of one is a
\* replacement, not an Update) and, node_count being Computed, its stored
\* node_count when none is declared
Plan(m, i) ==
    IF d_id = ""
    THEN Merge(m, i)
    ELSE [k \in DOMAIN ZeroState |->
            IF k \in ForceNewKeys THEN d_state[k]
            ELSE IF k = "node_count" /\ m[k] = 0 THEN d_state[k]
            ELSE m[k]]

\* d.IsNewResource() answering false
IsNotNewResource == FALSE

\* d.IsNewResource() inside Create
IsNewResource == TRUE

\* the plan of a change, for creation attributes drawn from I:
\* customizeDiff runs on the planned attributes
DiffOver(I) ==
    /\ Idle
    /\ \E m \in MutableConfigs, i \in IF d_id = "" THEN I ELSE {ZeroState} :
        /\ cfg' = Plan(m, i)
        /\ err' = customizeDiff(Plan(m, i))
    /\ op' = "Diff"
    /\ pc' = "done"
    /\ calls' = <<>>
    /\ payload' = Nil
    /\ existing' = Nil
    /\ cluster' = Nil
    /\ UNCHANGED <<pool, d_id, d_state>>

Diff == DiffOver(LifecycleCreationConfigs)

\* the callback has returned: its locals and its result are gone
Return ==
    /\ pc = "done"
    /\ pc' = "idle"
    /\ op' = "none"
    /\ cfg' = ZeroState
    /\ err' = <<>>
    /\ calls' = <<>>
    /\ payload' = Nil
    /\ existing' = Nil
    /\ cluster' = Nil
    /\ UNCHANGED <<pool, d_id, d_state>>

----------------------------------------------------------------------------
\* resourceArmKubernetesClusterNodePoolCreate

\* one remote call and the status of its response, appended to the log
Call(name, status) == calls' = Append(calls, <<name, status>>)

\* defaultPoolIsVMSS accepting any list of profiles
defaultPoolIsVMSSAny(c) ==
    /\ c.properties # Nil
    /\ Val(c.properties).AgentPoolProfiles # Nil

defaultPoolIsVMSS(c) ==
    /\ c.properties # Nil
    /\ Val(c.properties).AgentPoolProfiles # Nil
    /\ \E n \in 1..Len(Val(Val(c.properties).AgentPoolProfiles)) :
            Val(Val(c.properties).AgentPoolProfiles)[n] = VirtualMachineScaleSets

CreateGetCluster ==
    /\ Planned /\ err = <<>> /\ d_id = ""
    /\ op' = "Create"
    /\ \E r \in ClusterResponses :
        /\ Call("GetParent", r.status)
        /\ cluster' = Some(r)
        /\ IF r.status = "notfound" THEN Finish(<<MsgClusterNotFound>>)
           ELSE IF r.status = "error" THEN Finish(<<MsgRetrievingCluster>>)
           ELSE IF ~defaultPoolIsVMSS(r) THEN Finish(<<MsgNotVMSS>>)
           ELSE pc' = "check_existing" /\ err' = <<>>
    /\ UNCHANGED <<pool, d_id, d_state, cfg, existing, payload>>

\* HasIdentifier with the comparison with "" inverted
HasIdentifierInverted(body) == body.ID # Nil /\ Val(body.ID) = ""

\* existing.ID != nil && *existing.ID != ""
HasIdentifier(body) == body.ID # Nil /\ Val(body.ID) # ""

CreateCheckExisting ==
    /\ pc = "check_existing"
    /\ IF IsNewResource
       THEN \E r \in PoolResponses(pool, ResponseIds) :
                /\ Call("GetEntity", r.status)
                /\ existing' = Some(r.body)
                /\ IF r.status = "error" THEN Finish(<<MsgCheckingPresence>>)
                   ELSE IF HasIdentifier(r.body) THEN Finish(<<MsgImportAsExists>>)
                   ELSE pc' = "submit" /\ err' = <<>>
       ELSE pc' = "submit" /\ UNCHANGED <<calls, err, existing>>
    /\ UNCHANGED <<pool, d_id, d_state, cfg, op, cluster, payload>>

CreateSubmit ==
    /\ pc = "submit" /\ op = "Create"
    /\ IF CreateAutoScaleError(cfg) # <<>>
       THEN /\ Finish(CreateAutoScaleError(cfg))
            /\ UNCHANGED <<calls, payload>>
       ELSE /\ payload' = Some(CreateParameters(cfg))
            /\ \E ok \in BOOLEAN :
                IF ok THEN Call("CreateOrUpdate", "ok") /\ pc' = "await" /\ err' = <<>>
                ELSE Call("CreateOrUpdate", "error") /\ Finish(<<MsgCreating>>)
    /\ UNCHANGED <<pool, d_id, d_state, cfg, op, cluster, existing>>

\* CreateAwait going on to the read back when the wait failed
CreateAwaitIgnoringError ==
    /\ pc = "await" /\ op = "Create"
    /\ \E ok \in BOOLEAN :
        /\ pool' = IF ok THEN Applied(Val(payload)) ELSE pool
        /\ Call("Await", IF ok THEN "ok" ELSE "error")
        /\ pc' = "reread" /\ err' = <<>>
    /\ UNCHANGED <<d_id, d_state, cfg, op, cluster, existing, payload>>

\* future.WaitForCompletionRef: the mutation is applied when the wait
\* succeeds
CreateAwait ==
    /\ pc = "await" /\ op = "Create"
    /\ \E ok \in BOOLEAN :
        /\ pool' = IF ok THEN Applied(Val(payload)) ELSE pool
        /\ IF ok THEN Call("Await", "ok") /\ pc' = "reread" /\ err' = <<>>
           ELSE Call("Await", "error") /\ Finish(<<MsgWaitingCreate>>)
    /\ UNCHANGED <<d_id, d_state, cfg, op, cluster, existing, payload>>

\* CreateReread recording the identifier it expects when the response has
\* none
CreateRereadExpectedId ==
    /\ pc = "reread" /\ op = "Create"
    /\ \E r \in PoolResponses(pool, ResponseIds) :
        /\ Call("GetEntity", r.status)
        /\ existing' = Some(r.body)
        /\ IF r.status # "ok"
           THEN Finish(<<MsgRetrievingCreated>>) /\ UNCHANGED <<d_id, d_state>>
           ELSE /\ d_id' = IF r.body.ID = Nil THEN PoolId ELSE Val(r.body.ID)
                /\ d_state' = cfg
                /\ pc' = "read_cluster" /\ err' = <<>>
    /\ UNCHANGED <<pool, cfg, op, cluster, payload>>

\* the read back of the pool and d.SetId; from here on the planned
\* attributes are what is stored unless Read overwrites them
CreateReread ==
    /\ pc = "reread" /\ op = "Create"
    /\ \E r \in PoolResponses(pool, ResponseIds) :
        /\ Call("GetEntity", r.status)
        /\ existing' = Some(r.body)
        /\ IF r.status # "ok"
           THEN Finish(<<MsgRetrievingCreated>>) /\ UNCHANGED <<d_id, d_state>>
           ELSE IF r.body.ID = Nil
                THEN Finish(<<MsgCannotReadId>>) /\ UNCHANGED <<d_id, d_state>>
                ELSE /\ d_id' = Val(r.body.ID)
                     /\ d_state' = cfg
                     /\ pc' = "read_cluster" /\ err' = <<>>
    /\ UNCHANGED <<pool, cfg, op, cluster, payload>>

----------------------------------------------------------------------------
\* resourceArmKubernetesClusterNodePoolUpdate

\* UpdateGetExisting treating a pool that is not found as Read does
UpdateGetExistingTolerant ==
    /\ Planned /\ err = <<>> /\ d_id # ""
    /\ op' = "Update"
    /\ IF ~ParseOk(d_id)
       THEN Finish(<<MsgParseId>>) /\ UNCHANGED <<calls, existing, d_id, d_state>>
       ELSE \E r \in PoolResponses(pool, {Some(PoolId)}) :
                /\ Call("GetEntity", r.status)
                /\ IF r.status = "notfound"
                   THEN /\ Finish(<<>>) /\ d_id' = "" /\ d_state' = ZeroState
                        /\ UNCHANGED existing
                   ELSE IF r.status = "error"
                   THEN Finish(<<MsgRetrievingPool>>) /\ UNCHANGED <<existing, d_id, d_state>>
                   ELSE IF r.body.properties = Nil
                   THEN Finish(<<MsgNilProperties>>) /\ UNCHANGED <<existing, d_id, d_state>>
                   ELSE /\ existing' = Some(r.body) /\ pc' = "delta" /\ err' = <<>>
                        /\ UNCHANGED <<d_id, d_state>>
    /\ UNCHANGED <<pool, cfg, cluster, payload>>

UpdateGetExisting ==
    /\ Planned /\ err = <<>> /\ d_id # ""
    /\ op' = "Update"
    /\ IF ~ParseOk(d_id)
       THEN Finish(<<MsgParseId>>) /\ UNCHANGED <<calls, existing>>
       ELSE \E r \in PoolResponses(pool, {Some(PoolId)}) :
                /\ Call("GetEntity", r.status)
                /\ IF r.status = "notfound"
                   THEN Finish(<<MsgPoolNotFound>>) /\ UNCHANGED existing
                   ELSE IF r.status = "error"
                   THEN Finish(<<MsgRetrievingPool>>) /\ UNCHANGED existing
                   ELSE IF r.body.properties = Nil
                   THEN Finish(<<MsgNilProperties>>) /\ UNCHANGED existing
                   ELSE existing' = Some(r.body) /\ pc' = "delta" /\ err' = <<>>
    /\ UNCHANGED <<pool, d_id, d_state, cfg, cluster, payload>>

UpdateSubmit ==
    /\ pc = "delta" /\ op = "Update"
    /\ LET props == Val(Val(existing).properties)
           e == UpdateAutoScaleError(UpdateEnableAutoScaling(props), UpdateDelta(props))
       IN  IF e # <<>>
           THEN Finish(e) /\ UNCHANGED <<calls, payload>>
           ELSE /\ payload' = Some(UpdateParameters(Val(existing)))
                /\ \E ok \in BOOLEAN :
                    IF ok THEN Call("CreateOrUpdate", "ok") /\ pc' = "await" /\ err' = <<>>
                    ELSE Call("CreateOrUpdate", "error") /\ Finish(<<MsgUpdating>>)
    /\ UNCHANGED <<pool, d_id, d_state, cfg, op, cluster, existing>>

\* UpdateAwait going on to Read when the wait failed
UpdateAwaitIgnoringError ==
    /\ pc = "await" /\ op = "Update"
    /\ \E ok \in BOOLEAN :
        /\ pool' = IF ok THEN Applied(Val(payload)) ELSE pool
        /\ Call("Await", IF ok THEN "ok" ELSE "error")
        /\ pc' = "read_cluster" /\ err' = <<>> /\ d_state' = cfg
    /\ UNCHANGED <<d_id, cfg, op, cluster, existing, payload>>

\* the wait, then d.Partial(false): the planned attributes are stored from
\* here on unless Read overwrites them
UpdateAwait ==
    /\ pc = "await" /\ op = "Update"
    /\ \E ok \in BOOLEAN :
        /\ pool' = IF ok THEN Applied(Val(payload)) ELSE pool
        /\ IF ok
           THEN Call("Await", "ok") /\ pc' = "read_cluster" /\ err' = <<>> /\ d_state' = cfg
           ELSE Call("Await", "error") /\ Finish(<<MsgWaitingUpdate>>) /\ UNCHANGED d_state
    /\ UNCHANGED <<d_id, cfg, op, cluster, existing, payload>>

----------------------------------------------------------------------------
\* resourceArmKubernetesClusterNodePoolRead

\* a refresh: the framework calls Read on a resource that has an identifier
ReadBegin ==
    /\ Idle /\ d_id # ""
    /\ op' = "Read"
    /\ pc' = "read_cluster"
    /\ UNCHANGED <<pool, d_id, d_state, cfg, cluster, existing, payload, calls, err>>

\* DropState leaving what was stored
KeepState == UNCHANGED <<d_id, d_state>>

\* d.SetId(""): the resource is gone, the framework drops what was stored
DropState == d_id' = "" /\ d_state' = ZeroState

\* the identifier is parsed, then the cluster fetched; reached from the
\* refresh and from the last line of Create and of Update
ReadGetCluster ==
    /\ pc = "read_cluster"
    /\ IF ~ParseOk(d_id)
       THEN /\ Finish(<<MsgParseId>>)
            /\ d_state' = IF d_id = "" THEN ZeroState ELSE d_state
            /\ UNCHANGED <<d_id, calls>>
       ELSE \E st \in Statuses :
                /\ Call("GetParent", st)
                /\ IF st = "notfound" THEN Finish(<<>>) /\ DropState
                   ELSE IF st = "error"
                   THEN Finish(<<MsgRetrievingReadCluster>>) /\ UNCHANGED <<d_id, d_state>>
                   ELSE pc' = "read_pool" /\ err' = <<>> /\ UNCHANGED <<d_id, d_state>>
    /\ UNCHANGED <<pool, cfg, op, cluster, existing, payload>>

\* the pool is fetched and its fields set; Tags is a field of the
\* properties, so reading resp.Tags of a pool without properties
\* dereferences nil
ReadGetPool ==
    /\ pc = "read_pool"
    /\ \E r \in PoolResponses(pool, {Some(PoolId)}) :
        /\ Call("GetEntity", r.status)
        /\ IF r.status = "notfound" THEN Finish(<<>>) /\ DropState
           ELSE IF r.status = "error"
           THEN Finish(<<MsgRetrievingPool>>) /\ UNCHANGED <<d_id, d_state>>
           ELSE IF r.body.properties = Nil
           THEN Finish(<<MsgPanic>>) /\ UNCHANGED <<d_id, d_state>>
           ELSE Finish(<<>>) /\ d_state' = Reflect(d_state, r.body) /\ UNCHANGED d_id
    /\ UNCHANGED <<pool, cfg, op, cluster, existing, payload>>

----------------------------------------------------------------------------
\* resourceArmKubernetesClusterNodePoolDelete

\* client.Delete: accepted, or an error, which is NotFound only when there
\* is no pool
DeleteResponses == {"ok", "error"} \cup (IF pool = Nil THEN {"notfound"} ELSE {})

DeleteSubmit ==
    /\ Idle /\ d_id # ""
    /\ op' = "Delete"
    /\ IF ~ParseOk(d_id)
       THEN Finish(<<MsgParseId>>) /\ UNCHANGED calls
       ELSE \E st \in DeleteResponses :
                /\ Call("Delete", st)
                /\ IF st = "ok" THEN pc' = "await_delete" /\ err' = <<>>
                   ELSE Finish(<<MsgDeleting>>)
    /\ UNCHANGED <<pool, d_id, d_state, cfg, cluster, existing, payload>>

\* the wait; a Delete that returned nil removes the resource from the state
DeleteAwait ==
    /\ pc = "await_delete"
    /\ \E ok \in BOOLEAN :
        /\ pool' = IF ok THEN Nil ELSE pool
        /\ IF ok THEN Call("Await", "ok") /\ Finish(<<>>) /\ DropState
           ELSE Call("Await", "error") /\ Finish(<<MsgWaitingDelete>>)
                /\ UNCHANGED <<d_id, d_state>>
    /\ UNCHANGED <<cfg, op, cluster, existing, payload>>

----------------------------------------------------------------------------
\* Other writers of the remote API, between two operations of this resource

ExternalCreate ==
    /\ Idle /\ pool = Nil
    /\ \E p \in ExternalPools : pool' = Some(p)
    /\ UNCHANGED <<d_id, d_state, cfg, op, pc, cluster, existing, payload, calls, err>>

ExternalDelete ==
    /\ Idle /\ pool # Nil
    /\ pool' = Nil
    /\ UNCHANGED <<d_id, d_state, cfg, op, pc, cluster, existing, payload, calls, err>>

----------------------------------------------------------------------------
\* The specification

Init ==
    /\ pool = Nil
    /\ d_id = ""
    /\ d_state = ZeroState
    /\ cfg = ZeroState
    /\ op = "none"
    /\ pc = "idle"
    /\ cluster = Nil
    /\ existing = Nil
    /\ payload = Nil
    /\ calls = <<>>
    /\ err = <<>>

Next ==
    \/ Diff
    \/ Return
    \/ CreateGetCluster
    \/ CreateCheckExisting
    \/ CreateSubmit
    \/ CreateAwait
    \/ CreateReread
    \/ UpdateGetExisting
    \/ UpdateSubmit
    \/ UpdateAwait
    \/ ReadBegin
    \/ ReadGetCluster
    \/ ReadGetPool
    \/ DeleteSubmit
    \/ DeleteAwait
    \/ ExternalCreate
    \/ ExternalDelete

Spec == Init /\ [][Next]_vars

\* customizeDiff on every combination of the creation attributes
DiffAll == DiffOver(CreationConfigs)

NextDiff == DiffAll \/ Return

SpecDiff == Init /\ [][NextDiff]_vars

\* the configurations that pass customizeDiff and the auto-scaling checks
ValidConfigs ==
    {c \in {Merge(m, i) : m \in MutableConfigs, i \in CreationConfigs} :
        customizeDiff(c) = <<>> /\ CreateAutoScaleError(c) = <<>>}

\* the parameters Create builds from a valid configuration, read back by
\* the d.Set calls of Read into an empty state
RoundTrip ==
    /\ Idle
    /\ \E c \in ValidConfigs :
        /\ cfg' = c
        /\ payload' = Some(CreateParameters(c))
        /\ d_state' = Reflect(ZeroState, CreateParameters(c))
    /\ op' = "RoundTrip"
    /\ pc' = "done"
    /\ UNCHANGED <<pool, d_id, cluster, existing, calls, err>>

NextRoundTrip == RoundTrip \/ Return

SpecRoundTrip == Init /\ [][NextRoundTrip]_vars

----------------------------------------------------------------------------
\* Vocabulary of the properties

\* the call named name was issued by the running (or last) operation
Issued(name) == \E n \in 1..Len(calls) : calls[n][1] = name

\* the position of the first call named name (0: none)
FirstCall(name) ==
    IF Issued(name)
    THEN CHOOSE n \in 1..Len(calls) :
            calls[n][1] = name /\ \A k \in 1..(n - 1) : calls[k][1] # name
    ELSE 0

Done(o) == op = o /\ pc = "done"

\* the errors Create returns before it looks at the auto-scaling attributes
CreatePrecheckErrors ==
    {<<MsgClusterNotFound>>, <<MsgRetrievingCluster>>, <<MsgNotVMSS>>,
     <<MsgCheckingPresence>>, <<MsgImportAsExists>>}

\* Update has fetched the pool and d still holds the attributes it compares
\* the plan with (they are replaced once the wait has succeeded)
UpdateMerging ==
    op = "Update" /\ existing # Nil /\ pc \in {"delta", "await", "done"}
    /\ ~Issued("Await")

\* the fetched properties, and the effective auto-scaling triple of the
\* merged result: the planned value of a changed attribute, else the
\* fetched one
PriorProps == Val(Val(existing).properties)

Effective(key, fetched, zero) ==
    IF HasChange(key) THEN cfg[key] ELSE IF fetched # Nil THEN Val(fetched) ELSE zero

EffectiveEnabled == Effective("enable_auto_scaling", PriorProps.EnableAutoScaling, FALSE)
EffectiveMin == Effective("min_count", PriorProps.MinCount, 0)
EffectiveMax == Effective("max_count", PriorProps.MaxCount, 0)

SubmittedProps == Val(Val(payload).properties)

\* the messages of a sequence
Range(q) == {q[n] : n \in 1..Len(q)}

\* the auto-scaling rules a triple violates, in the order the rules are stated
AutoScaleViolations(enabled, min, max, offMsg) ==
    (IF ~enabled /\ (min > 0 \/ max > 0) THEN <<offMsg>> ELSE <<>>)
    \o (IF enabled /\ max = 0 THEN <<MsgMaxRequired>> ELSE <<>>)
    \o (IF enabled /\ min = 0 THEN <<MsgMinRequired>> ELSE <<>>)
    \o (IF enabled /\ min > max THEN <<MsgMaxGeMin>> ELSE <<>>)

\* the Spot-only attributes a Regular pool declares
SpotViolations(c) ==
    (IF c.priority = Regular /\ c.max_bid_price # 0 THEN <<MsgBidNeedsSpot>> ELSE <<>>)
    \o (IF c.priority = Regular /\ c.eviction_policy # "" THEN <<MsgEvictionNeedsSpot>> ELSE <<>>)

CreateViolations == AutoScaleViolations(cfg.enable_auto_scaling, cfg.min_count, cfg.max_count, MsgMustBeNull)
UpdateViolations == AutoScaleViolations(EffectiveEnabled, EffectiveMin, EffectiveMax, MsgMustBeNil)

\* Create passed the checks of the parent and of the existing pool
CreatePastChecks ==
    op = "Create" /\ Len(calls) >= 2 /\ calls[1] = <<"GetParent", "ok">>
    /\ calls[2][2] # "error" /\ pc \notin {"check_existing", "submit"}
    /\ err \notin CreatePrecheckErrors

----------------------------------------------------------------------------
\* C1: in Create and in Update, when the effective enable_auto_scaling is
\* false and the effective min_count or max_count is positive (in Update:
\* of the fetched properties patched with the changed attributes), no
\* CreateOrUpdate is issued and the operation ends with an error, which is
\* the "must be set to null/nil" validation error as soon as the handler
\* got to the auto-scaling check (in Create: unless fetching the parent or
\* the existing pool already failed it).
C1_AutoScaleOffRejected ==
    /\ (op = "Create" /\ ~cfg.enable_auto_scaling
            /\ (cfg.min_count > 0 \/ cfg.max_count > 0)) =>
        /\ ~Issued("CreateOrUpdate")
        /\ payload = Nil
        /\ pc \in {"check_existing", "submit", "done"}
        /\ pc = "done" => err \in CreatePrecheckErrors \cup {<<MsgMustBeNull>>}
        /\ CreatePastChecks => err = <<MsgMustBeNull>>
    /\ (UpdateMerging /\ ~EffectiveEnabled /\ (EffectiveMin > 0 \/ EffectiveMax > 0)) =>
        /\ ~Issued("CreateOrUpdate")
        /\ payload = Nil
        /\ pc \in {"delta", "done"}
        /\ pc = "done" => err = <<MsgMustBeNil>>

\* an Update that only turned auto-scaling off was refused because the
\* fetched pool still has its counts
C1_Witness ==
    /\ Done("Update") /\ UpdateMerging
    /\ err = <<MsgMustBeNil>>
    /\ HasChange("enable_auto_scaling") /\ ~cfg.enable_auto_scaling
    /\ ~HasChange("min_count") /\ ~HasChange("max_count")
    /\ PriorProps.MinCount # Nil /\ Val(PriorProps.MinCount) > 0
    /\ calls = << <<"GetEntity", "ok">> >>

\* C2: in Create and in Update, when the effective enable_auto_scaling is
\* true: if min_count is 0, max_count is 0 or min_count > max_count, no
\* CreateOrUpdate is issued and the operation ends with an error (one of
\* the three auto-scaling messages once the auto-scaling check is reached);
\* if both are positive and min_count <= max_count (equal included) no
\* auto-scaling error is returned and the handler goes on to CreateOrUpdate.
C2_AutoScaleOnChecked ==
    LET msgs == {<<MsgMaxRequired>>, <<MsgMinRequired>>, <<MsgMaxGeMin>>}
        Bad(min, max) == min = 0 \/ max = 0 \/ min > max
    IN  /\ (op = "Create" /\ cfg.enable_auto_scaling) =>
            IF Bad(cfg.min_count, cfg.max_count)
            THEN /\ ~Issued("CreateOrUpdate")
                 /\ payload = Nil
                 /\ pc = "done" => err \in CreatePrecheckErrors \cup msgs
                 /\ CreatePastChecks => err \in msgs
            ELSE /\ \A m \in AutoScaleMessages : err # <<m>>
                 /\ CreatePastChecks => Issued("CreateOrUpdate")
        /\ (UpdateMerging /\ EffectiveEnabled) =>
            IF Bad(EffectiveMin, EffectiveMax)
            THEN /\ ~Issued("CreateOrUpdate")
                 /\ payload = Nil
                 /\ pc = "done" => err \in msgs
            ELSE /\ \A m \in AutoScaleMessages : err # <<m>>
                 /\ pc # "delta" => Issued("CreateOrUpdate")

\* a Create with min_count = max_count > 0 submitted its payload
C2_Witness ==
    /\ op = "Create" /\ cfg.enable_auto_scaling
    /\ cfg.min_count = cfg.max_count /\ cfg.min_count > 0
    /\ Issued("CreateOrUpdate")
    /\ SubmittedProps.MinCount = Some(cfg.min_count)
    /\ SubmittedProps.MaxCount = Some(cfg.max_count)

\* C3: customizeDiff returns an error exactly when priority is Regular and
\* eviction_policy is set or max_bid_price is not zero; with both set the
\* one error carries both messages, with one set that message alone; under
\* Spot it returns no error.
C3_CustomizeDiff ==
    Planned =>
        LET regular == cfg.priority = Regular
            eviction == cfg.eviction_policy # ""
            bid == cfg.max_bid_price # 0
        IN  /\ (err # <<>>) <=> (regular /\ (eviction \/ bid))
            /\ (regular /\ eviction /\ bid) =>
                    err = <<MsgBidNeedsSpot, MsgEvictionNeedsSpot>>
            /\ (regular /\ eviction /\ ~bid) => err = <<MsgEvictionNeedsSpot>>
            /\ (regular /\ ~eviction /\ bid) => err = <<MsgBidNeedsSpot>>
            /\ cfg.priority = Spot => err = <<>>

\* a Regular pool with both Spot-only attributes got one error naming both
C3_Witness ==
    /\ Planned /\ cfg.priority = Regular
    /\ cfg.eviction_policy # "" /\ cfg.max_bid_price # 0
    /\ Range(err) = {MsgBidNeedsSpot, MsgEvictionNeedsSpot}

\* C4 as stated: whenever the plan or Create ends with a validation error,
\* the error reports every rule (1-3) the configuration violates.
C4_Original ==
    ((Planned \/ Done("Create")) /\ err # <<>>
        /\ Range(err) \subseteq AutoScaleMessages \cup {MsgBidNeedsSpot, MsgEvictionNeedsSpot}) =>
        \A m \in Range(CreateViolations) \cup Range(SpotViolations(cfg)) : m \in Range(err)

\* C4 amended: validation is fail-fast outside rule 3.  The plan's error
\* holds the violated checks of rule 3 only (max_bid_price, then
\* eviction_policy) and none of rules 1-2; Create and Update, which run
\* only after the plan passed, end their auto-scaling check with the first
\* violated rule alone (auto-scaling off with counts; else max_count
\* missing, then min_count missing, then min_count > max_count).
C4_FailFast ==
    /\ Planned => err = SpotViolations(cfg)
    /\ op \in {"Create", "Update"} => SpotViolations(cfg) = <<>>
    /\ (op = "Create" /\ pc \notin {"check_existing", "submit"} /\ CreateViolations # <<>>) =>
        /\ ~Issued("CreateOrUpdate")
        /\ CreatePastChecks => err = <<Head(CreateViolations)>>
    /\ (UpdateMerging /\ pc # "delta" /\ UpdateViolations # <<>>) =>
        /\ ~Issued("CreateOrUpdate")
        /\ err = <<Head(UpdateViolations)>>

\* a Create whose configuration lacks both counts reported max_count only
C4_Witness ==
    /\ Done("Create") /\ cfg.enable_auto_scaling
    /\ cfg.min_count = 0 /\ cfg.max_count = 0
    /\ err = <<MsgMaxRequired>>

\* C5: every payload handed to CreateOrUpdate, by Create or by Update,
\* satisfies the auto-scaling invariants: with the flag true, min and max
\* are present, positive and min <= max; with the flag false or absent,
\* min and max are absent.
C5_PayloadInvariants ==
    payload # Nil =>
        LET P == SubmittedProps
        IN  IF P.EnableAutoScaling = Some(TRUE)
            THEN /\ P.MinCount # Nil /\ P.MaxCount # Nil
                 /\ Val(P.MinCount) > 0 /\ Val(P.MaxCount) > 0
                 /\ Val(P.MinCount) <= Val(P.MaxCount)
            ELSE P.MinCount = Nil /\ P.MaxCount = Nil

\* an Update of a pool fetched with auto-scaling on and counts 1 and
\* MaxCount, planned with auto-scaling off and no counts, submitted a
\* payload without counts
C5_Witness ==
    /\ UpdateMerging /\ Issued("CreateOrUpdate")
    /\ PriorProps.EnableAutoScaling = Some(TRUE)
    /\ PriorProps.MinCount = Some(1) /\ PriorProps.MaxCount = Some(MaxCount)
    /\ ~cfg.enable_auto_scaling /\ cfg.min_count = 0 /\ cfg.max_count = 0
    /\ SubmittedProps.EnableAutoScaling = Some(FALSE)
    /\ SubmittedProps.MinCount = Nil /\ SubmittedProps.MaxCount = Nil

\* C6: a step of Read (the refresh, or the Read that ends Create and
\* Update) issues GetParent or GetEntity only and leaves the remote pool
\* alone; when the call's answer is NotFound, Read returns success with
\* the identifier cleared and nothing stored; when it is another failure,
\* Read returns an error and the identifier and the stored attributes are
\* as they were.
ReadStepTolerant ==
    pc \in {"read_cluster", "read_pool"} =>
        /\ pool' = pool /\ payload' = payload
        /\ \/ calls' = calls
           \/ /\ Len(calls') = Len(calls) + 1
              /\ SubSeq(calls', 1, Len(calls)) = calls
              /\ calls'[Len(calls')][1] =
                    (IF pc = "read_cluster" THEN "GetParent" ELSE "GetEntity")
        /\ (calls' # calls /\ calls'[Len(calls')][2] = "notfound") =>
                /\ pc' = "done" /\ err' = <<>>
                /\ d_id' = "" /\ d_state' = ZeroState
        /\ (calls' # calls /\ calls'[Len(calls')][2] = "error") =>
                /\ pc' = "done" /\ err' # <<>>
                /\ d_id' = d_id /\ d_state' = d_state

C6_ReadTolerant == [][ReadStepTolerant]_vars

\* a refresh whose GetParent succeeded and whose GetEntity found no pool
\* returned success and dropped the resource
C6_Witness ==
    /\ Done("Read") /\ err = <<>>
    /\ calls = << <<"GetParent", "ok">>, <<"GetEntity", "notfound">> >>
    /\ d_id = "" /\ d_state = ZeroState

\* C7 as stated: whenever the remote holds the pool at the time of the
\* existence check of Create, Create fails with the already-exists error,
\* issues no CreateOrUpdate and leaves the identifier unset.
C7_Original ==
    (op = "Create" /\ Len(calls) >= 2 /\ ~Issued("Await") /\ pool # Nil) =>
        /\ pc = "done" /\ err = <<MsgImportAsExists>>
        /\ ~Issued("CreateOrUpdate") /\ d_id = ""

\* C7 amended: when the existence check of Create returns a pool that
\* carries a non-empty identifier, Create fails with the already-exists
\* error; when the check itself fails (other than NotFound), Create fails
\* with the generic "checking for presence" error, a different one; in
\* both cases no CreateOrUpdate is issued, the remote pool is as it was and
\* the identifier stays unset.  (A pool returned without identifier is
\* taken as absent.)
C7_NoAdoption ==
    (op = "Create" /\ Len(calls) = 2) =>
        /\ (calls[2] = <<"GetEntity", "ok">> /\ Val(existing).ID \notin {Nil, Some("")}) =>
                /\ pc = "done" /\ err = <<MsgImportAsExists>>
                /\ payload = Nil /\ d_id = "" /\ pool # Nil
        /\ calls[2] = <<"GetEntity", "error">> =>
                /\ pc = "done" /\ err = <<MsgCheckingPresence>>
                /\ payload = Nil /\ d_id = ""
        /\ MsgCheckingPresence # MsgImportAsExists

\* a Create found a pool made by another writer and refused to import it
C7_Witness ==
    /\ Done("Create") /\ err = <<MsgImportAsExists>>
    /\ pool \in {Some(e) : e \in ExternalPools}
    /\ Val(existing).ID = Some(PoolId)
    /\ ~Issued("CreateOrUpdate") /\ d_id = ""

\* C8: Create first fetches the parent cluster; when the cluster is not
\* found, the fetch fails, or the cluster has no properties, no profiles
\* or no profile of type VirtualMachineScaleSets, Create has failed with
\* that single call made (no existence check, no CreateOrUpdate); a
\* CreateOrUpdate is issued only after a successful GetParent that
\* returned a VirtualMachineScaleSets profile, and after the existence
\* check.
C8_CompatibleParent ==
    op = "Create" =>
        LET c == Val(cluster)
            profiles == Val(Val(c.properties).AgentPoolProfiles)
            compatible ==
                /\ calls[1][2] = "ok"
                /\ c.properties # Nil
                /\ Val(c.properties).AgentPoolProfiles # Nil
                /\ \E n \in 1..Len(profiles) : profiles[n] = VirtualMachineScaleSets
        IN  /\ Len(calls) >= 1 /\ calls[1][1] = "GetParent"
            /\ ~compatible =>
                    /\ pc = "done" /\ err # <<>>
                    /\ Len(calls) = 1 /\ payload = Nil /\ d_id = ""
            /\ Issued("CreateOrUpdate") =>
                    /\ compatible
                    /\ FirstCall("GetParent") = 1
                    /\ FirstCall("GetEntity") = 2
                    /\ FirstCall("CreateOrUpdate") = 3

\* a Create on a cluster whose only profile is an availability set failed
\* after GetParent
C8_Witness ==
    /\ Done("Create") /\ err = <<MsgNotVMSS>>
    /\ calls = << <<"GetParent", "ok">> >>
    /\ Val(cluster).properties = Some([AgentPoolProfiles |-> Some(<<AvailabilitySet>>)])

\* C9: when the first call of Update (the fetch of the pool) or of Delete
\* (the delete) is answered NotFound, the handler returns an error with
\* no further call, no payload built, the remote as it was, and the
\* identifier and the stored attributes kept.
FirstCallNotFoundFails ==
    (op' \in {"Update", "Delete"} /\ calls = <<>> /\ Len(calls') = 1
            /\ calls'[1][2] = "notfound") =>
        /\ calls'[1][1] = (IF op' = "Update" THEN "GetEntity" ELSE "Delete")
        /\ pc' = "done" /\ err' # <<>>
        /\ payload' = Nil /\ pool' = pool
        /\ d_id' = d_id /\ d_id' # "" /\ d_state' = d_state

C9_MissingTargetFails == [][FirstCallNotFoundFails]_vars

\* an Update of a pool deleted by another writer failed and kept the
\* resource
C9_Witness ==
    /\ Done("Update") /\ err = <<MsgPoolNotFound>>
    /\ calls = << <<"GetEntity", "notfound">> >>
    /\ pool = Nil /\ d_id = PoolId /\ d_state # ZeroState

\* C10: the properties Update submits are the fetched ones with, of the
\* seven mutable fields, exactly those whose planned attribute differs
\* from the stored one replaced by the planned value; min and max are
\* absent instead when the effective auto-scaling flag is false; every
\* other field, and the identity of the pool, is the fetched one.
C10_DeltaMinimal ==
    (UpdateMerging /\ payload # Nil) =>
        LET P == SubmittedProps
            F == PriorProps
            Pick(key, fetched) == IF d_state[key] # cfg[key] THEN Some(cfg[key]) ELSE fetched
            Count(key, fetched) == IF EffectiveEnabled THEN Pick(key, fetched) ELSE Nil
        IN  /\ P.AvailabilityZones = Pick("availability_zones", F.AvailabilityZones)
            /\ P.EnableAutoScaling = Pick("enable_auto_scaling", F.EnableAutoScaling)
            /\ P.EnableNodePublicIP = Pick("enable_node_public_ip", F.EnableNodePublicIP)
            /\ P.MaxCount = Count("max_count", F.MaxCount)
            /\ P.MinCount = Count("min_count", F.MinCount)
            /\ P.Count = Pick("node_count", F.Count)
            /\ P.Tags = Pick("tags", F.Tags)
            /\ \A k \in DOMAIN F \ {"AvailabilityZones", "EnableAutoScaling",
                    "EnableNodePublicIP", "MaxCount", "MinCount", "Count", "Tags"} :
                    P[k] = F[k]
            /\ Val(payload).ID = Val(existing).ID
            /\ Val(payload).Name = Val(existing).Name

\* an Update whose plan changes the tags only submitted the fetched pool
\* with new tags, its node count being the fetched one
C10_Witness ==
    /\ UpdateMerging /\ pc = "await"
    /\ \A k \in MutableKeys : HasChange(k) <=> k = "tags"
    /\ SubmittedProps.Tags = Some(cfg.tags)
    /\ SubmittedProps.Tags # PriorProps.Tags
    /\ SubmittedProps.Count = PriorProps.Count
    /\ [SubmittedProps EXCEPT !.Tags = PriorProps.Tags] = PriorProps

\* the fields of the properties no Update may change
CreationOnlyFields ==
    {"VMSize", "OsType", "MaxPods", "NodeLabels", "NodeTaints", "OsDiskSizeGB",
     "VnetSubnetID", "ScaleSetPriority", "ScaleSetEvictionPolicy", "SpotMaxPrice", "Type"}

UpdateKeepsCreationFields ==
    op = "Update" =>
        /\ (calls # <<>> /\ ~Issued("Await")) => d_id = PoolId
        /\ payload' # Nil =>
                /\ Val(payload').ID = Val(existing').ID
                /\ Val(payload').Name = Val(existing').Name
                /\ \A k \in CreationOnlyFields :
                        Val(Val(payload').properties)[k] = Val(Val(existing').properties)[k]
        /\ pool' # pool =>
                /\ pool # Nil /\ pool' # Nil
                /\ Val(pool').ID = Val(pool).ID
                /\ Val(pool').Name = Val(pool).Name
                /\ Val(pool).properties # Nil /\ Val(pool').properties # Nil
                /\ \A k \in CreationOnlyFields :
                        Val(Val(pool').properties)[k] = Val(Val(pool).properties)[k]

\* C11: Update issues its calls under the stored identifier only; every
\* payload it builds has the identifier, the name and the creation-only
\* fields (vm size, os type, max pods, node labels, node taints, os disk
\* size, subnet, priority, eviction policy, max bid price, type) of the
\* fetched pool, whatever the plan holds; and a step of Update that changes
\* the remote pool leaves these fields of it as they were.
C11_UpdateKeepsIdentity == [][UpdateKeepsCreationFields]_vars

\* an Update was applied to a pool whose operating system is not the
\* planned one (the pool was replaced by another writer), and the pool
\* kept its own
C11_Witness ==
    /\ op = "Update" /\ Issued("Await") /\ pc = "read_cluster"
    /\ pool # Nil /\ Val(pool).properties = Val(payload).properties
    /\ SubmittedProps.OsType # cfg.os_type
    /\ SubmittedProps.OsType = PriorProps.OsType

\* C12 as stated: reflecting the parameters Create builds from a valid
\* configuration reproduces every attribute of it other than max_pods and
\* os_disk_size_gb, node_count included.
C12_Original ==
    Done("RoundTrip") =>
        \A k \in DOMAIN cfg \ {"max_pods", "os_disk_size_gb"} : d_state[k] = cfg[k]

\* C12 amended: reflecting the parameters Create builds from a valid
\* configuration reproduces every attribute of it except node_count, which
\* is Computed as well: it is reproduced when it is declared or
\* auto-scaling is off, and is min_count when it is left unset with
\* auto-scaling on.
C12_RoundTrip ==
    Done("RoundTrip") =>
        /\ \A k \in DOMAIN cfg \ {"node_count"} : d_state[k] = cfg[k]
        /\ d_state.node_count =
                (IF cfg.enable_auto_scaling /\ cfg.node_count = 0
                 THEN cfg.min_count ELSE cfg.node_count)

\* a configuration with auto-scaling on, no node_count, zones and tags was
\* read back with node_count = min_count and the same zones and tags
C12_Witness ==
    /\ Done("RoundTrip")
    /\ cfg.enable_auto_scaling /\ cfg.node_count = 0
    /\ d_state.node_count = cfg.min_count /\ cfg.min_count > 0
    /\ cfg.tags # {} /\ d_state.tags = cfg.tags
    /\ cfg.availability_zones # <<>> /\ d_state.availability_zones = cfg.availability_zones

\* call n of the log was made by Read: by a refresh, or by the Read that
\* ends Create and Update, after their wait
MadeByRead(n) == op = "Read" \/ \E k \in 1..(n - 1) : calls[k][1] = "Await"

\* call n failed, and not as a NotFound answered to Read
FailedCall(n) ==
    /\ calls[n][2] # "ok"
    /\ ~(MadeByRead(n) /\ calls[n][2] = "notfound")

\* the operation returned an error right after call n
ReturnedErrorAt(n) == n = Len(calls) /\ pc = "done" /\ err # <<>>

\* C13 as stated: every failed remote call, other than a NotFound answered
\* to Read, is the last call of its operation, which returns an error.
C13_Original == \A n \in 1..Len(calls) : FailedCall(n) => ReturnedErrorAt(n)

\* C13 amended: every failed remote call is the last call of its operation,
\* which returns an error, except a NotFound answered to Read and a NotFound
\* answered to the existence check of Create, after which Create goes on.
C13_ErrorsPropagate ==
    \A n \in 1..Len(calls) :
        (FailedCall(n) /\ ~(op = "Create" /\ n = 2 /\ calls[n] = <<"GetEntity", "notfound">>))
            => ReturnedErrorAt(n)

\* a Create went on after its existence check was answered NotFound, and
\* returned the error of its failed wait
C13_Witness ==
    /\ Done("Create") /\ err = <<MsgWaitingCreate>>
    /\ calls = << <<"GetParent", "ok">>, <<"GetEntity", "notfound">>,
                  <<"CreateOrUpdate", "ok">>, <<"Await", "error">> >>

\* Update turns auto-scaling off, the plan leaves min_count and max_count
\* as stored, and the fetched pool has a positive count
TurnedOffWithStaleCounts ==
    /\ UpdateMerging
    /\ HasChange("enable_auto_scaling") /\ ~cfg.enable_auto_scaling
    /\ ~HasChange("min_count") /\ ~HasChange("max_count")
    /\ (IntOrZero(PriorProps.MinCount) > 0 \/ IntOrZero(PriorProps.MaxCount) > 0)

\* C14 as stated: such an Update clears both counts in its payload and
\* submits it.
C14_Original ==
    (TurnedOffWithStaleCounts /\ pc # "delta") =>
        /\ Issued("CreateOrUpdate")
        /\ payload # Nil
        /\ SubmittedProps.MinCount = Nil /\ SubmittedProps.MaxCount = Nil

\* C14 amended: such an Update is refused with the "must be set to nil"
\* error and submits nothing; the counts are cleared only in a payload
\* that passed the check, i.e. when auto-scaling is off and the merged
\* counts are zero or absent (the plan removed them, or the pool had none).
C14_StaleCountsRefused ==
    /\ TurnedOffWithStaleCounts =>
        /\ ~Issued("CreateOrUpdate")
        /\ payload = Nil
        /\ pc \in {"delta", "done"}
        /\ pc = "done" => err = <<MsgMustBeNil>>
    /\ (UpdateMerging /\ payload # Nil /\ ~EffectiveEnabled) =>
        /\ EffectiveMin = 0 /\ EffectiveMax = 0
        /\ SubmittedProps.MinCount = Nil /\ SubmittedProps.MaxCount = Nil

\* an Update that turned auto-scaling off and kept max_count as declared
\* before was refused, nothing submitted
C14_Witness ==
    /\ Done("Update") /\ TurnedOffWithStaleCounts
    /\ PriorProps.MaxCount = Some(cfg.max_count) /\ cfg.max_count > 0
    /\ err = <<MsgMustBeNil>> /\ payload = Nil
    /\ Len(calls) = 1

\* the operation returned one of the auto-scaling validation errors
ValidationFailed(o) == Done(o) /\ \E m \in AutoScaleMessages : err = <<m>>

\* C15 as stated: Create and Update return an auto-scaling validation
\* error before any remote call.
C15_Original ==
    (ValidationFailed("Create") \/ ValidationFailed("Update")) => calls = <<>>

\* C15 amended: the auto-scaling validation comes after the fetches and
\* before the mutation.  Create returns a validation error only after
\* GetParent succeeded and the existence check found no pool to import;
\* Update only after GetEntity returned the pool; in both no payload was
\* built and no CreateOrUpdate issued.  A violating configuration whose
\* parent fetch fails gets the error of the fetch.
C15_ValidationAfterFetch ==
    /\ ValidationFailed("Create") =>
        /\ Len(calls) = 2
        /\ calls[1] = <<"GetParent", "ok">>
        /\ calls[2][1] = "GetEntity" /\ calls[2][2] \in {"notfound", "ok"}
        /\ payload = Nil
    /\ ValidationFailed("Update") =>
        /\ calls = << <<"GetEntity", "ok">> >>
        /\ payload = Nil
    /\ (op = "Create" /\ CreateViolations # <<>> /\ Len(calls) >= 1 /\ calls[1][2] # "ok") =>
        /\ pc = "done"
        /\ err \in {<<MsgClusterNotFound>>, <<MsgRetrievingCluster>>}

\* a Create without min_count returned the validation error after both
\* fetches
C15_Witness ==
    /\ ValidationFailed("Create") /\ err = <<MsgMinRequired>>
    /\ calls = << <<"GetParent", "ok">>, <<"GetEntity", "notfound">> >>

\* the positions of the mutating calls of the log
Submits == {n \in 1..Len(calls) : calls[n][1] \in {"CreateOrUpdate", "Delete"}}

\* C16: in Create, Update and Delete the call after an accepted
\* CreateOrUpdate or Delete is the wait; a refused one, and a failed wait,
\* is the last call of the operation, which returns an error; the
\* operation submits once, Create and Update never delete and Delete never
\* creates; every fetch after the submission comes after a successful
\* wait; and while Create has no successful wait the identifier is unset.
C16_AwaitThenReread ==
    /\ \A n \in Submits :
        /\ calls[n][2] # "ok" => ReturnedErrorAt(n)
        /\ (calls[n][2] = "ok" /\ n < Len(calls)) => calls[n + 1][1] = "Await"
        /\ (calls[n][2] = "ok" /\ n = Len(calls)) => pc \in {"await", "await_delete"}
        /\ \A k \in (n + 1)..Len(calls) :
                calls[k][1] # "Await" => calls[n + 1] = <<"Await", "ok">>
    /\ \A n \in 1..Len(calls) :
        /\ calls[n][1] = "Await" => (n - 1) \in Submits
        /\ (calls[n][1] = "Await" /\ calls[n][2] # "ok") => ReturnedErrorAt(n)
    /\ Cardinality(Submits) <= 1
    /\ op \in {"Create", "Update"} => ~Issued("Delete")
    /\ op = "Delete" => ~Issued("CreateOrUpdate")
    /\ (op = "Create" /\ \A n \in 1..Len(calls) : calls[n] # <<"Await", "ok">>) => d_id = ""

\* an Update whose wait failed returned the error with the wait as its
\* last call
C16_Witness ==
    /\ Done("Update") /\ err = <<MsgWaitingUpdate>>
    /\ calls = << <<"GetEntity", "ok">>, <<"CreateOrUpdate", "ok">>, <<"Await", "error">> >>
    /\ d_id = PoolId

\* C17: while Create runs or has just returned, the identifier is set only
\* if CreateOrUpdate, the wait and the read back (calls 3 to 5) succeeded
\* and the read back carried an identifier, and it is that identifier; when
\* the read back failed or carried no identifier, Create has returned an
\* error with the read back as its last call, the identifier unset and
\* nothing stored.
C17_IdentifierFromReread ==
    op = "Create" =>
        /\ d_id # "" =>
            /\ Len(calls) >= 5
            /\ calls[3] = <<"CreateOrUpdate", "ok">>
            /\ calls[4] = <<"Await", "ok">>
            /\ calls[5] = <<"GetEntity", "ok">>
            /\ Val(existing).ID = Some(d_id)
        /\ (Len(calls) >= 5 /\ (calls[5][2] # "ok" \/ Val(existing).ID = Nil)) =>
            /\ pc = "done" /\ err # <<>>
            /\ Len(calls) = 5
            /\ d_id = "" /\ d_state = ZeroState

\* a Create whose pool was made but read back without identifier returned
\* an error and recorded nothing
C17_Witness ==
    /\ Done("Create") /\ err = <<MsgCannotReadId>>
    /\ Len(calls) = 5 /\ calls[5] = <<"GetEntity", "ok">>
    /\ pool # Nil /\ Val(pool).properties = Val(payload).properties
    /\ d_id = "" /\ d_state = ZeroState

\* C18: every payload Create builds has a count: min_count when
\* auto-scaling is on and node_count is unset (zero), the declared
\* node_count otherwise.
C18_CreateCount ==
    (op = "Create" /\ payload # Nil) =>
        /\ SubmittedProps.Count # Nil
        /\ Val(SubmittedProps.Count) =
                (IF cfg.enable_auto_scaling /\ cfg.node_count = 0
                 THEN cfg.min_count ELSE cfg.node_count)

\* a Create with auto-scaling on and no node_count submitted min_count,
\* here the largest, as its count
C18_Witness ==
    /\ op = "Create" /\ Issued("CreateOrUpdate")
    /\ cfg.enable_auto_scaling /\ cfg.node_count = 0
    /\ cfg.min_count = MaxCount /\ cfg.max_count = MaxCount
    /\ SubmittedProps.Count = Some(MaxCount)

\* C19 as stated: every payload Create hands to CreateOrUpdate has a count
\* of at least 1.
C19_Original ==
    (op = "Create" /\ Issued("CreateOrUpdate")) =>
        (SubmittedProps.Count # Nil /\ Val(SubmittedProps.Count) >= 1)

\* C20: in the parameters Create builds, each of max_pods,
\* os_disk_size_gb, vnet_subnet_id, eviction_policy, max_bid_price,
\* availability_zones, node_labels and node_taints is present, with the
\* declared value, exactly when the declared value is not zero or empty
\* (an absent eviction policy is the empty enum value); none is sent as an
\* explicit zero or empty value; the type is VirtualMachineScaleSets.
C20_OptionalFields ==
    Done("RoundTrip") =>
        LET P == SubmittedProps
            Sent(field, declared, unset) ==
                P[field] = (IF declared = unset THEN Nil ELSE Some(declared))
        IN  /\ Sent("MaxPods", cfg.max_pods, 0)
            /\ Sent("OsDiskSizeGB", cfg.os_disk_size_gb, 0)
            /\ Sent("VnetSubnetID", cfg.vnet_subnet_id, "")
            /\ Sent("SpotMaxPrice", cfg.max_bid_price, 0)
            /\ Sent("AvailabilityZones", cfg.availability_zones, <<>>)
            /\ Sent("NodeLabels", cfg.node_labels, {})
            /\ Sent("NodeTaints", cfg.node_taints, <<>>)
            /\ P.ScaleSetEvictionPolicy = cfg.eviction_policy
            /\ P.MaxPods # Some(0) /\ P.OsDiskSizeGB # Some(0)
            /\ P.SpotMaxPrice # Some(0) /\ P.VnetSubnetID # Some("")
            /\ P.AvailabilityZones # Some(<<>>) /\ P.NodeTaints # Some(<<>>)
            /\ P.NodeLabels # Some({})
            /\ P.Type = VirtualMachineScaleSets

\* the parameters of a configuration that declares a name, a size, a node
\* count and Linux only: the count and Linux, no eviction policy, no bid
\* price, no other optional field
C20_Witness ==
    /\ Done("RoundTrip")
    /\ cfg.node_count = MaxNodes /\ ~cfg.enable_auto_scaling /\ cfg.os_type = Linux
    /\ cfg.max_pods = 0 /\ cfg.eviction_policy = "" /\ cfg.max_bid_price = 0
    /\ cfg.availability_zones = <<>>
    /\ SubmittedProps.Count = Some(MaxNodes) /\ SubmittedProps.OsType = Linux
    /\ SubmittedProps.ScaleSetEvictionPolicy = "" /\ SubmittedProps.SpotMaxPrice = Nil
    /\ SubmittedProps.MaxPods = Nil /\ SubmittedProps.OsDiskSizeGB = Nil
    /\ SubmittedProps.VnetSubnetID = Nil /\ SubmittedProps.AvailabilityZones = Nil

\* the auto-scaling flag of the fetched pool, false when it has none
FetchedEnabled == PriorProps.EnableAutoScaling = Some(TRUE)

\* the fetched pool satisfies the auto-scaling invariants
FetchedConsistent ==
    LET min == IntOrZero(PriorProps.MinCount)
        max == IntOrZero(PriorProps.MaxCount)
    IN  IF FetchedEnabled THEN 0 < min /\ min <= max ELSE min = 0 /\ max = 0

\* the plan changes none of the mutable attributes
NothingChanged == \A k \in MutableKeys : ~HasChange(k)

\* C21: an Update whose plan changes no mutable attribute, on a fetched
\* pool that satisfies the auto-scaling invariants, passes the check and
\* submits the fetched pool as it is, except that min and max are absent
\* when its auto-scaling is off; and whenever enable_auto_scaling is not
\* changed, the flag the check uses is the fetched one (false when
\* absent): the check fails exactly when that flag with the merged counts
\* violates a rule.
C21_NoOpUpdate ==
    /\ (UpdateMerging /\ NothingChanged /\ FetchedConsistent /\ pc # "delta") =>
        /\ Issued("CreateOrUpdate")
        /\ \A m \in AutoScaleMessages : err # <<m>>
        /\ payload = Some([Val(existing) EXCEPT !.properties =
                Some(IF FetchedEnabled THEN PriorProps
                     ELSE [PriorProps EXCEPT !.MinCount = Nil, !.MaxCount = Nil])])
    /\ (UpdateMerging /\ ~HasChange("enable_auto_scaling") /\ pc # "delta") =>
        (Issued("CreateOrUpdate") <=>
            AutoScaleViolations(FetchedEnabled, EffectiveMin, EffectiveMax, MsgMustBeNil) = <<>>)

\* an Update that changes nothing, on a pool with auto-scaling on and
\* consistent counts, submitted the fetched pool unchanged
C21_Witness ==
    /\ UpdateMerging /\ NothingChanged /\ Issued("CreateOrUpdate")
    /\ FetchedEnabled /\ FetchedConsistent
    /\ PriorProps.MinCount = Some(1) /\ PriorProps.MaxCount = Some(MaxCount)
    /\ payload = existing

====
